---- MODULE Spec2Model ----
(***************************************************************************)
(* The gesture state machine of the Graph component (src/src/Graph.tsx,    *)
(* the hooks version starting at line 470): node drag, background pan and *)
(* edge creation, driven by the pointer events of one mouse, with the      *)
(* click/drag disambiguation of clickFudgeFactor and the two "skip next    *)
(* click" refs.                                                            *)
(*                                                                         *)
(* The component is the record `graph`; every handler of the source is an  *)
(* operator from a component state (and an event) to the next component    *)
(* state.  The browser is the environment: it owns the pointer, decides    *)
(* which element an event is delivered to, and delivers the click that     *)
(* follows a mouse-up.  Every event finds the component as the handlers of  *)
(* the previous event left it: the render they caused has committed and    *)
(* the document listeners are those of that render.                        *)
(***************************************************************************)
EXTENDS Integers, Sequences, FiniteSets, TLC

\* The pointer's screenX ranges over 0..MaxCoord; its screenY over 0..1.
MaxCoord == 1
\* props.clickFudgeFactor ranges over 0..MaxFudge.
MaxFudge == 1
\* The pan offset of the transform stays within MaxPan of its value at mount.
MaxPan == 1

\* JavaScript undefined, for a slot that holds an object.
undefined == [undefined |-> TRUE]
\* JavaScript undefined, for a slot that holds an id.
NoId == "undefined"

NodeIds == {"A", "B"}
\* The <rect> behind the graph: what the pointer is over when it is over no node.
Background == "background"
Elements == NodeIds \cup {Background}

\* props.nodes, keyed by id (nodesById).
InitialNodes ==
  [id \in NodeIds |->
     IF id = "A" THEN [id |-> "A", x |-> 0, y |-> 0, width |-> 2, height |-> 2]
                 ELSE [id |-> "B", x |-> 4, y |-> 4, width |-> 2, height |-> 2]]

\* props.edges: an edge between the nodes and a self-edge on each of them.
Edges ==
  << [id |-> "e1", sourceId |-> "A", targetId |-> "B"],
     [id |-> "e2", sourceId |-> "A", targetId |-> "A"],
     [id |-> "e3", sourceId |-> "B", targetId |-> "B"] >>

Coords == 0..MaxCoord
ScreenPositions == [screenX : Coords, screenY : 0..1]

\* The scale of the transform is the rational num / den.
Scales == { [num |-> 1, den |-> 1], [num |-> 1, den |-> 2] }

\* v / scale; exact for every scale of Scales.
DivScale(v, scale) == (v * scale.den) \div scale.num

Abs(v) == IF v < 0 THEN -v ELSE v

\* root.getBoundingClientRect() and root.clientLeft / clientTop.
rootRect == [left |-> 0, top |-> 0, width |-> 2, height |-> 2, clientLeft |-> 0, clientTop |-> 0]

\* A mouse event at screen position p; the window sits at the screen's origin,
\* so client and screen coordinates coincide.
MouseEvent(p) ==
  [screenX |-> p.screenX, screenY |-> p.screenY, clientX |-> p.screenX, clientY |-> p.screenY]

VARIABLES
  graph,        \* the Graph component: props, hook state, refs, and the calls it made
  pointer,      \* screen position of the pointer
  over,         \* the element under the pointer
  pressed,      \* the element the button went down on, NoId while the button is up
  pendingClick, \* the element the browser is about to deliver a click to, or NoId
  gesture,      \* history: the facts of the gesture in progress
  owed,         \* history: the nodes an onCreateEdgeEnd named as its target and
                \* that no click was delivered to since
  view,         \* what the render reads besides the gesture state: props.edges,
                \* the throttled worldSpaceBounds state, and the throttle itself
  document,     \* whether the component is mounted, the mousemove and mouseup
                \* listeners the document holds, and those the effects last added
  selection,    \* the selection set of useSelectionSet, its update nonce, and the
                \* last call made on it
  path          \* the last call of pathD and the path it returned

vars ==
  << graph, pointer, over, pressed, pendingClick, gesture, owed, view, document, selection,
     path >>

----------------------------------------------------------------------------
(* The component *)

isWithinFudgeFactor(s, e, start) ==
  /\ Abs(e.screenX - start.screenX) <= s.clickFudgeFactor
  /\ Abs(e.screenY - start.screenY) <= s.clickFudgeFactor

\* toWorldSpacePosition that takes the pan off before it divides by the scale.
toWorldSpacePosition_panFirst(s, e) ==
  [x |-> DivScale(e.clientX - rootRect.left - rootRect.clientLeft - s.transform.x,
                  s.transform.scale),
   y |-> DivScale(e.clientY - rootRect.top - rootRect.clientTop - s.transform.y,
                  s.transform.scale)]

toWorldSpacePosition(s, e) ==
  [x |-> DivScale(e.clientX - rootRect.left - rootRect.clientLeft, s.transform.scale)
           - s.transform.x,
   y |-> DivScale(e.clientY - rootRect.top - rootRect.clientTop, s.transform.scale)
           - s.transform.y]

\* A call of one of the caller's callbacks, or an error thrown by a handler.
Call(name, id, other, position) ==
  [cb |-> name, id |-> id, other |-> other, position |-> position]

NoPosition == [x |-> 0, y |-> 0]

\* An optional predicate prop (shouldStartPan, shouldStartNodeDrag,
\* shouldStartCreateEdge) as one event meets it: supplied by the caller or not,
\* and what it returns for the event when it is supplied.
NoPredicate == [supplied |-> FALSE, returns |-> FALSE]
Predicates == {NoPredicate} \cup [supplied : {TRUE}, returns : BOOLEAN]

\* predicate?.(e) ?? false
OptionalCall(predicate) == predicate.supplied /\ predicate.returns

\* onMouseDownBackground that pans by default: with no shouldStartPan supplied
\* the press becomes a pan.
onMouseDownBackground_defaultPan(s, e, shouldStartPan) ==
  [s EXCEPT !.panState =
     [panning |-> IF shouldStartPan.supplied THEN shouldStartPan.returns ELSE TRUE,
      start |-> [screenX |-> e.screenX, screenY |-> e.screenY],
      last |-> [screenX |-> e.screenX, screenY |-> e.screenY]]]

onMouseDownBackground(s, e, shouldStartPan) ==
  [s EXCEPT !.panState =
     [panning |-> OptionalCall(shouldStartPan),
      start |-> [screenX |-> e.screenX, screenY |-> e.screenY],
      last |-> [screenX |-> e.screenX, screenY |-> e.screenY]]]

onClickBackgroundWrapper(s, e) ==
  IF s.shouldSkipNextBackgroundClick
    THEN [s EXCEPT !.shouldSkipNextBackgroundClick = FALSE]
    ELSE [s EXCEPT !.calls =
            Append(@, Call("onClickBackground", NoId, NoId, toWorldSpacePosition(s, e)))]

\* onMouseDownNode that sets up the drag of the node whatever shouldStartCreateEdge
\* said, and the edge creation on top of it.
onMouseDownNode_alsoDrags(s, id, e, shouldStartCreateEdge, shouldStartNodeDrag) ==
  LET s1 == [s EXCEPT !.dragState =
               [id |-> id,
                dragging |-> OptionalCall(shouldStartNodeDrag),
                start |-> [screenX |-> e.screenX, screenY |-> e.screenY],
                last |-> [screenX |-> e.screenX, screenY |-> e.screenY]]]
  IN IF OptionalCall(shouldStartCreateEdge)
       THEN [s1 EXCEPT !.incompleteEdge =
               [source |-> s.nodes[id],
                target |-> undefined,
                start |-> [screenX |-> e.screenX, screenY |-> e.screenY],
                last |-> [screenX |-> e.screenX, screenY |-> e.screenY],
                didLeaveOriginalNode |-> FALSE]]
       ELSE s1

onMouseDownNode(s, id, e, shouldStartCreateEdge, shouldStartNodeDrag) ==
  IF OptionalCall(shouldStartCreateEdge)
    THEN [s EXCEPT !.incompleteEdge =
            [source |-> s.nodes[id],
             target |-> undefined,
             start |-> [screenX |-> e.screenX, screenY |-> e.screenY],
             last |-> [screenX |-> e.screenX, screenY |-> e.screenY],
             didLeaveOriginalNode |-> FALSE]]
    ELSE [s EXCEPT !.dragState =
            [id |-> id,
             dragging |-> OptionalCall(shouldStartNodeDrag),
             start |-> [screenX |-> e.screenX, screenY |-> e.screenY],
             last |-> [screenX |-> e.screenX, screenY |-> e.screenY]]]

\* onMouseUpNode that forgets didLeaveOriginalNode: only a release beyond the
\* fudge factor creates an edge.
onMouseUpNode_ignoresLeave(s, id, e) ==
  IF s.incompleteEdge # undefined
    THEN IF ~isWithinFudgeFactor(s, e, s.incompleteEdge.start)
           THEN [s EXCEPT !.shouldSkipNextNodeClick = id,
                          !.calls = Append(@, Call("onCreateEdgeEnd",
                                       s.incompleteEdge.source.id, s.nodes[id].id, NoPosition)),
                          !.incompleteEdge = undefined]
           ELSE [s EXCEPT !.incompleteEdge = undefined]
    ELSE s

\* onMouseUpNode that hands the recorded hover target to onCreateEdgeEnd.
onMouseUpNode_hoverTarget(s, id, e) ==
  IF s.incompleteEdge # undefined
    THEN IF \/ ~isWithinFudgeFactor(s, e, s.incompleteEdge.start)
            \/ s.incompleteEdge.didLeaveOriginalNode
           THEN [s EXCEPT !.shouldSkipNextNodeClick = id,
                          !.calls = Append(@, Call("onCreateEdgeEnd",
                                       s.incompleteEdge.source.id,
                                       IF s.incompleteEdge.target # undefined
                                         THEN s.incompleteEdge.target.id ELSE NoId,
                                       NoPosition)),
                          !.incompleteEdge = undefined]
           ELSE [s EXCEPT !.incompleteEdge = undefined]
    ELSE s

onMouseUpNode(s, id, e) ==
  IF s.incompleteEdge # undefined
    THEN IF \/ ~isWithinFudgeFactor(s, e, s.incompleteEdge.start)
            \/ s.incompleteEdge.didLeaveOriginalNode
           THEN [s EXCEPT !.shouldSkipNextNodeClick = id,
                          !.calls = Append(@, Call("onCreateEdgeEnd",
                                       s.incompleteEdge.source.id, s.nodes[id].id, NoPosition)),
                          !.incompleteEdge = undefined]
           ELSE [s EXCEPT !.incompleteEdge = undefined]
    ELSE s

\* onMouseEnterNode that takes no node for the target of its own edge.
onMouseEnterNode_notSource(s, id) ==
  IF s.incompleteEdge # undefined /\ s.incompleteEdge.source.id # id
    THEN [s EXCEPT !.incompleteEdge.target = s.nodes[id]]
    ELSE s

\* onMouseEnterNode that takes the return to the source node for never having left.
onMouseEnterNode_rearms(s, id) ==
  IF s.incompleteEdge # undefined
    THEN [s EXCEPT !.incompleteEdge.target = s.nodes[id],
                   !.incompleteEdge.didLeaveOriginalNode =
                      @ /\ s.incompleteEdge.source.id # id]
    ELSE s

onMouseEnterNode(s, id) ==
  IF s.incompleteEdge # undefined
    THEN [s EXCEPT !.incompleteEdge.target = s.nodes[id]]
    ELSE s

\* onMouseLeaveNode that forgets the target and records no leaving.
onMouseLeaveNode_clearsOnly(s) ==
  IF s.incompleteEdge # undefined /\ s.incompleteEdge.target # undefined
    THEN [s EXCEPT !.incompleteEdge.target = undefined]
    ELSE s

\* onMouseLeaveNode that acts only when a hover target is recorded.
onMouseLeaveNode_onlyWithTarget(s) ==
  IF s.incompleteEdge # undefined /\ s.incompleteEdge.target # undefined
    THEN [s EXCEPT !.incompleteEdge.target = undefined,
                   !.incompleteEdge.didLeaveOriginalNode = TRUE]
    ELSE s

onMouseLeaveNode(s) ==
  IF /\ s.incompleteEdge # undefined
     /\ \/ s.incompleteEdge.target # undefined
        \/ s.incompleteEdge.didLeaveOriginalNode # TRUE
    THEN [s EXCEPT !.incompleteEdge.target = undefined,
                   !.incompleteEdge.didLeaveOriginalNode = TRUE]
    ELSE s

\* assertEqual(v1, v2) throws when the two differ.
assertEqualThrows(v1, v2) == v1 # v2

\* onClickNodeWrapper that lets every click through to the caller.
onClickNodeWrapper_ignoresFlag(s, id, e) ==
  [s EXCEPT !.calls =
     Append(@, Call("onClickNode", s.nodes[id].id, NoId, toWorldSpacePosition(s, e)))]

onClickNodeWrapper(s, id, e) ==
  IF s.shouldSkipNextNodeClick # NoId
    THEN IF assertEqualThrows(s.shouldSkipNextNodeClick, id)
           THEN [s EXCEPT !.calls =
                   Append(@, Call("Error", id, s.shouldSkipNextNodeClick, NoPosition))]
           ELSE [s EXCEPT !.shouldSkipNextNodeClick = NoId]
    ELSE [s EXCEPT !.calls =
            Append(@, Call("onClickNode", s.nodes[id].id, NoId, toWorldSpacePosition(s, e)))]

\* transform.zoomWithWheel(e): the pan-zoom engine picks the new scale and, zooming
\* about the pointer, the new pan; the engine is outside the source, so both
\* are the caller's to choose.
onWheelContainer(s, scale, x, y) ==
  [s EXCEPT !.transform = [x |-> x, y |-> y, scale |-> scale]]

\* transform.pan(dx, dy, { relative: true, force: true })
panRelative(transform, dx, dy) ==
  [transform EXCEPT !.x = @ + dx, !.y = @ + dy]

\* onMouseMoveDocument that reports every move of a drag to the caller.
onMouseMoveDocument_reports(s, e) ==
  LET p == [screenX |-> e.screenX, screenY |-> e.screenY] IN
  IF s.dragState # undefined /\ s.dragState.dragging
    THEN [s EXCEPT !.dragState.last = p,
                   !.calls = Append(@, Call("onNodeDragEnd", s.dragState.id, NoId, NoPosition))]
    ELSE s

\* onMouseMoveDocument that pans but leaves panState.last where the press put it.
onMouseMoveDocument_keepsLast(s, e) ==
  LET p == [screenX |-> e.screenX, screenY |-> e.screenY]
      scale == s.transform.scale
      s1 == IF s.dragState # undefined /\ s.dragState.dragging
              THEN [s EXCEPT !.dragState.last = p]
              ELSE s
      s2 == IF s1.incompleteEdge # undefined
              THEN [s1 EXCEPT !.incompleteEdge.last = p]
              ELSE s1
  IN IF s2.panState # undefined /\ s2.panState.panning
       THEN [s2 EXCEPT
               !.transform = panRelative(@,
                               DivScale(e.screenX - s2.panState.last.screenX, scale),
                               DivScale(e.screenY - s2.panState.last.screenY, scale))]
       ELSE s2

\* onMouseMoveDocument that follows the pointer whatever the predicates decided
\* at the mouse-down.
onMouseMoveDocument_ignoresDecision(s, e) ==
  LET p == [screenX |-> e.screenX, screenY |-> e.screenY]
      scale == s.transform.scale
      s1 == IF s.dragState # undefined
              THEN [s EXCEPT !.dragState.last = p]
              ELSE s
      s2 == IF s1.incompleteEdge # undefined
              THEN [s1 EXCEPT !.incompleteEdge.last = p]
              ELSE s1
  IN IF s2.panState # undefined
       THEN [s2 EXCEPT
               !.transform = panRelative(@,
                               DivScale(e.screenX - s2.panState.last.screenX, scale),
                               DivScale(e.screenY - s2.panState.last.screenY, scale)),
               !.panState.last = p]
       ELSE s2

onMouseMoveDocument(s, e) ==
  LET p == [screenX |-> e.screenX, screenY |-> e.screenY]
      scale == s.transform.scale
      s1 == IF s.dragState # undefined /\ s.dragState.dragging
              THEN [s EXCEPT !.dragState.last = p]
              ELSE s
      s2 == IF s1.incompleteEdge # undefined
              THEN [s1 EXCEPT !.incompleteEdge.last = p]
              ELSE s1
  IN IF s2.panState # undefined /\ s2.panState.panning
       THEN [s2 EXCEPT
               !.transform = panRelative(@,
                               DivScale(e.screenX - s2.panState.last.screenX, scale),
                               DivScale(e.screenY - s2.panState.last.screenY, scale)),
               !.panState.last = p]
       ELSE s2

\* onMouseUpDocument that reports the drag position in screen pixels, without
\* dividing by the scale.
dragEndPosition_unscaled(s, e, node) ==
  [x |-> (e.screenX - s.dragState.start.screenX) + node.x,
   y |-> (e.screenY - s.dragState.start.screenY) + node.y]

\* The world position onMouseUpDocument reports with onNodeDragEnd.
dragEndPosition(s, e, node) ==
  [x |-> DivScale(e.screenX - s.dragState.start.screenX, s.transform.scale) + node.x,
   y |-> DivScale(e.screenY - s.dragState.start.screenY, s.transform.scale) + node.y]

\* The drag part of onMouseUpDocument that reports the drag but lets the click through.
finishDrag_noSkip(s, e) ==
  IF s.dragState # undefined
    THEN IF ~isWithinFudgeFactor(s, e, s.dragState.start)
           THEN LET node == s.nodes[s.dragState.id] IN
                [s EXCEPT !.calls = Append(@, Call("onNodeDragEnd", node.id, NoId,
                                                   dragEndPosition(s, e, node))),
                          !.dragState = undefined]
           ELSE [s EXCEPT !.dragState = undefined]
    ELSE s

\* The drag part of onMouseUpDocument that clears the drag only when it reports it.
finishDrag_keepsSmallDrag(s, e) ==
  IF s.dragState # undefined /\ ~isWithinFudgeFactor(s, e, s.dragState.start)
    THEN LET node == s.nodes[s.dragState.id] IN
         [s EXCEPT !.shouldSkipNextNodeClick = s.dragState.id,
                   !.calls = Append(@, Call("onNodeDragEnd", node.id, NoId,
                                            dragEndPosition(s, e, node))),
                   !.dragState = undefined]
    ELSE s

\* onMouseUpDocument, lines 902-915: the node drag.
finishDrag(s, e) ==
  IF s.dragState # undefined
    THEN IF ~isWithinFudgeFactor(s, e, s.dragState.start)
           THEN LET node == s.nodes[s.dragState.id] IN
                [s EXCEPT !.shouldSkipNextNodeClick = s.dragState.id,
                          !.calls = Append(@, Call("onNodeDragEnd", node.id, NoId,
                                                   dragEndPosition(s, e, node))),
                          !.dragState = undefined]
           ELSE [s EXCEPT !.dragState = undefined]
    ELSE s

\* The pan part of onMouseUpDocument that never suppresses the background click.
finishPan_noSkip(s, e) ==
  IF s.panState # undefined
    THEN [s EXCEPT !.shouldSkipNextBackgroundClick = FALSE, !.panState = undefined]
    ELSE s

\* The pan part of onMouseUpDocument that sets the suppression of the background
\* click after a pan and otherwise leaves it as it finds it.
finishPan_onlySets(s, e) ==
  IF s.panState # undefined
    THEN [s EXCEPT !.shouldSkipNextBackgroundClick =
                      @ \/ ~isWithinFudgeFactor(s, e, s.panState.start),
                   !.panState = undefined]
    ELSE s

\* onMouseUpDocument, lines 917-921: the pan.
finishPan(s, e) ==
  IF s.panState # undefined
    THEN [s EXCEPT !.shouldSkipNextBackgroundClick = ~isWithinFudgeFactor(s, e, s.panState.start),
                   !.panState = undefined]
    ELSE s

\* onMouseUpDocument that takes a release off every node for a background click.
onMouseUpDocument_clicksBackground(s, e) ==
  LET s2 == finishPan(finishDrag(s, e), e) IN
  IF s2.incompleteEdge # undefined
    THEN [s2 EXCEPT !.incompleteEdge = undefined,
                    !.calls = Append(@, Call("onClickBackground", NoId, NoId,
                                             toWorldSpacePosition(s, e)))]
    ELSE s2

\* onMouseUpDocument without its last line: an edge creation released off
\* every node is not stopped.
onMouseUpDocument_keepsEdge(s, e) == finishPan(finishDrag(s, e), e)

\* onMouseUpDocument, lines 904-911, reads node.x of nodesById[dragState.id]
\* for the arguments of onNodeDragEnd: a TypeError when the caller's nodes no
\* longer have the dragged node.
dragEndThrows(s, e) ==
  /\ s.dragState # undefined
  /\ ~isWithinFudgeFactor(s, e, s.dragState.start)
  /\ s.dragState.id \notin DOMAIN s.nodes

\* The handler that threw: shouldSkipNextNodeClick was assigned, line 904, and
\* nothing after line 909 was run.
dragEndThrown(s) ==
  [s EXCEPT !.shouldSkipNextNodeClick = s.dragState.id,
            !.calls = Append(@, Call("TypeError", s.dragState.id, NoId, NoPosition))]

onMouseUpDocument(s, e) ==
  IF dragEndThrows(s, e)
    THEN dragEndThrown(s)
    ELSE [finishPan(finishDrag(s, e), e) EXCEPT !.incompleteEdge = undefined]

----------------------------------------------------------------------------
(* Rendering of the edges *)

\* -Infinity and Infinity of the initial worldSpaceBounds.
Infinity == 1000

Bounds(minX, maxX, minY, maxY) == [minX |-> minX, maxX |-> maxX, minY |-> minY, maxY |-> maxY]

Min(a, b) == IF a < b THEN a ELSE b
Max(a, b) == IF a > b THEN a ELSE b

overlaps(b, minX, maxX, minY, maxY) ==
  maxX > b.minX /\ minX < b.maxX /\ maxY > b.minY /\ minY < b.maxY

containsEdge(b, n1, n2) ==
  overlaps(b, Min(n1.x, n2.x), Max(n1.x, n2.x), Min(n1.y, n2.y), Max(n1.y, n2.y))

\* A node drawn where the drag has taken it.
displaced(n, start, last, scale) ==
  [n EXCEPT !.x = DivScale(last.screenX - start.screenX, scale) + n.x,
            !.y = DivScale(last.screenY - start.screenY, scale) + n.y]

\* renderEdge that moves the source end of a dragged node's edges only.
renderEdge_sourceOnly(s, worldSpaceBounds, e) ==
  IF e.sourceId \notin DOMAIN s.nodes \/ e.targetId \notin DOMAIN s.nodes
    THEN undefined
    ELSE LET source0 == s.nodes[e.sourceId]
             target == s.nodes[e.targetId]
             source == IF s.dragState # undefined /\ s.dragState.id = source0.id
                         THEN displaced(source0, s.dragState.start, s.dragState.last,
                                        s.transform.scale)
                         ELSE source0
         IN IF containsEdge(worldSpaceBounds, source, target)
              THEN [edge |-> e, source |-> source, target |-> target]
              ELSE undefined

\* The error of reading a property of undefined.
TypeError == [error |-> "TypeError"]

\* renderEdge without the check of lines 1018-1021: the render reads source.id of
\* a node that is not there.
renderEdge_noNullCheck(s, worldSpaceBounds, e) ==
  IF e.sourceId \notin DOMAIN s.nodes \/ e.targetId \notin DOMAIN s.nodes
    THEN TypeError
    ELSE LET source0 == s.nodes[e.sourceId]
             target0 == s.nodes[e.targetId]
             source == IF s.dragState # undefined /\ s.dragState.id = source0.id
                         THEN displaced(source0, s.dragState.start, s.dragState.last,
                                        s.transform.scale)
                         ELSE source0
             target == IF s.dragState # undefined /\ s.dragState.id = target0.id
                         THEN displaced(target0, s.dragState.start, s.dragState.last,
                                        s.transform.scale)
                         ELSE target0
         IN IF containsEdge(worldSpaceBounds, source, target)
              THEN [edge |-> e, source |-> source, target |-> target]
              ELSE undefined

\* What the render, lines 1014-1050, hands to props.renderEdge for the edge e:
\* undefined when the edge is not rendered.
renderEdge(s, worldSpaceBounds, e) ==
  IF e.sourceId \notin DOMAIN s.nodes \/ e.targetId \notin DOMAIN s.nodes
    THEN undefined
    ELSE LET source0 == s.nodes[e.sourceId]
             target0 == s.nodes[e.targetId]
             source == IF s.dragState # undefined /\ s.dragState.id = source0.id
                         THEN displaced(source0, s.dragState.start, s.dragState.last,
                                        s.transform.scale)
                         ELSE source0
             target == IF s.dragState # undefined /\ s.dragState.id = target0.id
                         THEN displaced(target0, s.dragState.start, s.dragState.last,
                                        s.transform.scale)
                         ELSE target0
         IN IF containsEdge(worldSpaceBounds, source, target)
              THEN [edge |-> e, source |-> source, target |-> target]
              ELSE undefined

\* DraggingSubgraph: what it hands to the edge component for an edge of the
\* dragged node nodeId.
DraggingSubgraphEdge(nodesOf, nodeId, startPosition, lastPosition, scale, edge) ==
  LET source0 == nodesOf[edge.sourceId]
      target0 == nodesOf[edge.targetId]
  IN [edge |-> edge,
      source |-> IF nodeId = edge.sourceId
                   THEN displaced(source0, startPosition, lastPosition, scale)
                   ELSE source0,
      target |-> IF nodeId = edge.targetId
                   THEN displaced(target0, startPosition, lastPosition, scale)
                   ELSE target0]

\* useThrottledState(initialValue), with nothing set and no window of the
\* throttle open: the worldSpaceBounds state and its throttle.  `edges` is
\* props.edges.
ThrottledState(initialValue) ==
  [worldSpaceBounds |-> initialValue, timer |-> FALSE, lastArgs |-> undefined]

\* The view right after construction.
InitialView ==
  [edges |-> Edges] @@ ThrottledState(Bounds(-Infinity, Infinity, -Infinity, Infinity))

----------------------------------------------------------------------------
(* The document's listeners *)

\* The onMouseMoveDocument of a render in state s: a closure over dragState,
\* lines 868-896.
onMouseMoveDocumentOf(s) == [type |-> "mousemove", dragState |-> s.dragState]

\* The onMouseUpDocument of a render in state s: a closure over dragState and
\* nodesById, lines 900-927 (onNodeDragEnd and isWithinFudgeFactor, its other
\* dependencies, do not change).
onMouseUpDocumentOf(s) == [type |-> "mouseup", dragState |-> s.dragState, nodesById |-> s.nodes]

\* The two listeners a render in state s hands to useDocumentEvent.
ListenersOf(s) == << onMouseMoveDocumentOf(s), onMouseUpDocumentOf(s) >>

\* document.addEventListener: a listener the document already holds is not
\* added again.
addEventListener(listeners, l) ==
  IF \E i \in 1..Len(listeners) : listeners[i] = l THEN listeners ELSE Append(listeners, l)

\* document.removeEventListener
removeEventListener(listeners, l) == SelectSeq(listeners, LAMBDA k : k # l)

\* useDocumentEvent whose effect has no cleanup: the listener of the previous
\* render stays.
useDocumentEvent_noCleanup(listeners, previous, listener) ==
  addEventListener(listeners, listener)

\* The effect of useDocumentEvent run again because its listener changed: the
\* cleanup of the previous run, then the run for the new listener.
useDocumentEvent(listeners, previous, listener) ==
  addEventListener(removeEventListener(listeners, previous), listener)

\* Both effects of a render in state s, after those that added `captured`.
runEffects(d, s) ==
  LET new == ListenersOf(s)
      l1 == IF new[1] # d.captured[1]
              THEN useDocumentEvent(d.listeners, d.captured[1], new[1])
              ELSE d.listeners
      l2 == IF new[2] # d.captured[2]
              THEN useDocumentEvent(l1, d.captured[2], new[2])
              ELSE l1
  IN [d EXCEPT !.listeners = l2, !.captured = new]

\* The unmount: the cleanup of each effect.
unmount(d) ==
  [d EXCEPT !.mounted = FALSE,
            !.listeners = removeEventListener(removeEventListener(@, d.captured[1]),
                                              d.captured[2])]

\* The listener l called with the event e in state s: it reads the dragState
\* (and nodesById) of its render, and what it sets, it sets in the component.
callListener(s, l, e) ==
  IF l.type = "mousemove"
    THEN LET r == onMouseMoveDocument([s EXCEPT !.dragState = l.dragState], e) IN
         IF l.dragState # undefined /\ l.dragState.dragging
           THEN r
           ELSE [r EXCEPT !.dragState = s.dragState]
    ELSE LET c == [s EXCEPT !.dragState = l.dragState, !.nodes = l.nodesById]
             r == onMouseUpDocument(c, e)
         IN [r EXCEPT !.nodes = s.nodes,
                      !.dragState = IF l.dragState # undefined /\ ~dragEndThrows(c, e)
                                      THEN undefined
                                      ELSE s.dragState]

\* The document dispatches e to its listeners of the type, in the order added.
RECURSIVE dispatchEvent(_, _, _, _)
dispatchEvent(s, listeners, type, e) ==
  IF listeners = << >>
    THEN s
    ELSE dispatchEvent(IF Head(listeners).type = type
                         THEN callListener(s, Head(listeners), e)
                         ELSE s,
                       Tail(listeners), type, e)

\* After the mount: the effects of the first render have run.
InitialDocument ==
  LET first == [dragState |-> undefined, nodes |-> InitialNodes] IN
  [mounted |-> TRUE, listeners |-> ListenersOf(first), captured |-> ListenersOf(first)]

----------------------------------------------------------------------------
(* The selection set *)

\* The ids the callers select; the empty string is an id like any other.
SelectionIds == {"n1", "n2", ""}

\* forceUpdate(): setNonce((n) => n + 1)
forceUpdate(s) == [s EXCEPT !.nonce = @ + 1]

has(s, id) == id \in s.set

\* add that notifies whether or not the id was there.
add_alwaysNotifies(s, id) == forceUpdate([s EXCEPT !.set = @ \cup {id}])

add(s, id) ==
  IF ~has(s, id)
    THEN forceUpdate([s EXCEPT !.set = @ \cup {id}])
    ELSE s

\* set.delete(id) returns whether the id was there.
remove(s, id) ==
  IF has(s, id)
    THEN forceUpdate([s EXCEPT !.set = @ \ {id}])
    ELSE s

\* toggle that only ever adds.
toggle_addsOnly(s, id) == forceUpdate([s EXCEPT !.set = @ \cup {id}])

toggle(s, id) ==
  IF ~has(s, id)
    THEN forceUpdate([s EXCEPT !.set = @ \cup {id}])
    ELSE forceUpdate([s EXCEPT !.set = @ \ {id}])

\* The optional argument of reset, left out.
NoArgument == "undefined"
ResetArguments == SelectionIds \cup {NoArgument}

\* reset that tests `if (id)`: the empty string is not added.
reset_truthy(s, id) ==
  LET cleared == [s EXCEPT !.set = {}] IN
  forceUpdate(IF id # NoArgument /\ id # "" THEN [cleared EXCEPT !.set = {id}] ELSE cleared)

\* reset(id?): `id != null` holds of every string.
reset(s, id) ==
  LET cleared == [s EXCEPT !.set = {}] IN
  forceUpdate(IF id # NoArgument THEN [cleared EXCEPT !.set = @ \cup {id}] ELSE cleared)

\* No call made yet.
NoCall == [op |-> "none", id |-> NoArgument]

\* useState(() => new Set()) and useState(0)
InitialSelection == [set |-> {}, nonce |-> 0, last |-> NoCall]

----------------------------------------------------------------------------
(* The paths of the edges *)

PathTypes == {"straight", "right", "three-part", "bezier"}
PathDirections == {"auto", "horizontal-first", "vertical-first"}

\* The coordinates of a path are held in halves, so that the halfway
\* coordinate (a + b) / 2 is a whole number of them.
InHalves(v) == 2 * v
Point(x, y) == [x |-> InHalves(x), y |-> InHalves(y)]
Halfway(a, b) == a + b

\* A command of a path: its letter and its points.
Command(letter, points) == [letter |-> letter, points |-> points]

\* _getAutoDirection that decides by the signed displacements.
getAutoDirection_signed(source, target) ==
  IF target.x - source.x > target.y - source.y THEN "horizontal-first" ELSE "vertical-first"

getAutoDirection(source, target) ==
  LET deltaX == Abs(target.x - source.x)
      deltaY == Abs(target.y - source.y)
  IN IF deltaX > deltaY THEN "horizontal-first" ELSE "vertical-first"

\* _straight drawn from the left end to the right end, whichever is the source.
straight_leftToRight(source, target) ==
  IF source.x <= target.x
    THEN << Command("M", << Point(source.x, source.y) >>),
            Command("L", << Point(target.x, target.y) >>) >>
    ELSE << Command("M", << Point(target.x, target.y) >>),
            Command("L", << Point(source.x, source.y) >>) >>

\* `M${source.x},${source.y}L${target.x},${target.y}`
straight(source, target) ==
  << Command("M", << Point(source.x, source.y) >>),
     Command("L", << Point(target.x, target.y) >>) >>

right(source, target, direction) ==
  IF direction = "horizontal-first"
    THEN << Command("M", << Point(source.x, source.y) >>),
            Command("L", << Point(target.x, source.y) >>),
            Command("L", << Point(target.x, target.y) >>) >>
    ELSE << Command("M", << Point(source.x, source.y) >>),
            Command("L", << Point(source.x, target.y) >>),
            Command("L", << Point(target.x, target.y) >>) >>

threePart(source, target, direction) ==
  IF direction = "horizontal-first"
    THEN LET halfway == Halfway(source.x, target.x) IN
         << Command("M", << Point(source.x, source.y) >>),
            Command("L", << [x |-> halfway, y |-> InHalves(source.y)] >>),
            Command("L", << [x |-> halfway, y |-> InHalves(target.y)] >>),
            Command("L", << Point(target.x, target.y) >>) >>
    ELSE LET halfway == Halfway(source.y, target.y) IN
         << Command("M", << Point(source.x, source.y) >>),
            Command("L", << [x |-> InHalves(source.x), y |-> halfway] >>),
            Command("L", << [x |-> InHalves(target.x), y |-> halfway] >>),
            Command("L", << Point(target.x, target.y) >>) >>

bezier(source, target, direction) ==
  IF direction = "horizontal-first"
    THEN LET halfway == Halfway(source.x, target.x) IN
         << Command("M", << Point(source.x, source.y) >>),
            Command("C", << [x |-> halfway, y |-> InHalves(source.y)],
                            [x |-> halfway, y |-> InHalves(target.y)],
                            Point(target.x, target.y) >>) >>
    ELSE LET halfway == Halfway(source.y, target.y) IN
         << Command("M", << Point(source.x, source.y) >>),
            Command("C", << [x |-> InHalves(source.x), y |-> halfway],
                            [x |-> InHalves(target.x), y |-> halfway],
                            Point(target.x, target.y) >>) >>

pathD(source, target, pathType, preferredPathDirection) ==
  IF pathType = "straight"
    THEN straight(source, target)
    ELSE LET direction == IF preferredPathDirection = "auto"
                            THEN getAutoDirection(source, target)
                            ELSE preferredPathDirection
         IN IF pathType = "right" THEN right(source, target, direction)
            ELSE IF pathType = "three-part" THEN threePart(source, target, direction)
            ELSE bezier(source, target, direction)

\* No path asked for yet.
NoPath ==
  [source |-> [x |-> 0, y |-> 0], target |-> [x |-> 0, y |-> 0], pathType |-> "none",
   preferredPathDirection |-> "auto", d |-> << >>]

----------------------------------------------------------------------------
(* The browser *)

IdleGesture ==
  [phase |-> "idle", kind |-> "none", on |-> NoId, origin |-> [screenX |-> 0, screenY |-> 0],
   left |-> FALSE, release |-> [screenX |-> 0, screenY |-> 0], releasedOn |-> NoId,
   noPredicate |-> FALSE, rejected |-> FALSE, skipAtPress |-> FALSE]

\* The calls are those of the gesture in progress: the first event after a
\* gesture ended starts from an empty record of it.
Fresh == IF gesture.phase = "done" THEN [graph EXCEPT !.calls = << >>] ELSE graph
Ongoing == IF gesture.phase = "done" THEN IdleGesture ELSE gesture

\* The pan offsets the model lets the transform take: those within MaxPan, both
\* axes together, of the offset set at mount.
PanRange ==
  { p \in [x : (rootRect.width \div 2 - MaxPan) .. (rootRect.width \div 2 + MaxPan),
           y : (rootRect.height \div 2 - MaxPan) .. (rootRect.height \div 2 + MaxPan)] :
      Abs(p.x - rootRect.width \div 2) + Abs(p.y - rootRect.height \div 2) <= MaxPan }

Init ==
  /\ graph \in [clickFudgeFactor : 0..MaxFudge,
                nodes : {InitialNodes},
                transform : {[x |-> rootRect.width \div 2, y |-> rootRect.height \div 2,
                              scale |-> [num |-> 1, den |-> 1]]},
                panState : {undefined},
                dragState : {undefined},
                incompleteEdge : {undefined},
                shouldSkipNextNodeClick : {NoId},
                shouldSkipNextBackgroundClick : {FALSE},
                calls : {<< >>}]
  /\ pointer = [screenX |-> 0, screenY |-> 0]
  /\ over = Background
  /\ pressed = NoId
  /\ pendingClick = NoId
  /\ gesture = IdleGesture
  /\ owed = {}
  /\ view = InitialView
  /\ document = InitialDocument
  /\ selection = InitialSelection
  /\ path = NoPath

\* The button goes down over the background.
MouseDownBackground ==
  /\ pressed = NoId /\ pendingClick = NoId
  /\ over = Background
  /\ \E shouldStartPan \in Predicates :
       /\ graph' = onMouseDownBackground([graph EXCEPT !.calls = << >>], MouseEvent(pointer),
                                         shouldStartPan)
       /\ gesture' = [IdleGesture EXCEPT !.phase = "down", !.kind = "pan", !.on = over,
                                         !.origin = pointer,
                                         !.noPredicate = ~shouldStartPan.supplied,
                                         !.rejected = /\ shouldStartPan.supplied
                                                      /\ ~shouldStartPan.returns,
                                         !.skipAtPress =
                                            graph.shouldSkipNextBackgroundClick]
  /\ pressed' = over
  /\ UNCHANGED << pointer, over, pendingClick, owed, view, document, selection, path >>

\* The button goes down over a node.
MouseDownNode ==
  /\ pressed = NoId /\ pendingClick = NoId
  /\ over \in NodeIds
  /\ \E shouldStartCreateEdge \in Predicates, shouldStartNodeDrag \in Predicates :
       /\ graph' = onMouseDownNode([graph EXCEPT !.calls = << >>], over, MouseEvent(pointer),
                                   shouldStartCreateEdge, shouldStartNodeDrag)
       /\ gesture' = [IdleGesture EXCEPT !.phase = "down",
                                         !.kind = IF OptionalCall(shouldStartCreateEdge)
                                                    THEN "edge" ELSE "drag",
                                         !.on = over, !.origin = pointer,
                                         !.noPredicate = /\ ~OptionalCall(shouldStartCreateEdge)
                                                         /\ ~shouldStartNodeDrag.supplied,
                                         !.rejected = /\ ~OptionalCall(shouldStartCreateEdge)
                                                      /\ shouldStartNodeDrag.supplied
                                                      /\ ~shouldStartNodeDrag.returns]
  /\ pressed' = over
  /\ UNCHANGED << pointer, over, pendingClick, owed, view, document, selection, path >>

\* The pointer moves to p: the document gets a mousemove.
MouseMove ==
  /\ pendingClick = NoId
  /\ \E p \in ScreenPositions :
       /\ p # pointer
       /\ graph' = onMouseMoveDocument(Fresh, MouseEvent(p))
       /\ [x |-> graph'.transform.x, y |-> graph'.transform.y] \in PanRange
       /\ pointer' = p
  /\ gesture' = Ongoing
  /\ UNCHANGED << over, pressed, pendingClick, owed, view, document, selection, path >>

\* The pointer comes over a node; it was over none, since a node is left
\* before the next is entered.
MouseEnterNode ==
  /\ pendingClick = NoId
  /\ over = Background
  /\ \E id \in NodeIds :
       /\ graph' = onMouseEnterNode(Fresh, id)
       /\ over' = id
  /\ gesture' = Ongoing
  /\ UNCHANGED << pointer, pressed, pendingClick, owed, view, document, selection, path >>

\* The pointer leaves the node it is over.
MouseLeaveNode ==
  /\ pendingClick = NoId
  /\ over \in NodeIds
  /\ graph' = onMouseLeaveNode(Fresh)
  /\ over' = Background
  /\ gesture' = [Ongoing EXCEPT !.left = (gesture.phase = "down" /\ gesture.kind = "edge")]
  /\ UNCHANGED << pointer, pressed, pendingClick, owed, view, document, selection, path >>

\* The click that follows a mouse-up goes to the element both the mouse-down and
\* the mouse-up were on; when they differ it goes to their common ancestor,
\* which is neither a node nor the background.
Released ==
  /\ pendingClick' = IF over = pressed THEN over ELSE NoId
  /\ pressed' = NoId
  /\ gesture' = [gesture EXCEPT !.phase = IF over = pressed THEN "up" ELSE "done",
                                !.release = pointer, !.releasedOn = over,
                                !.noPredicate = FALSE, !.rejected = FALSE]
  /\ UNCHANGED << pointer, over, view, document, selection, path >>

\* The button goes up over a node: the node's handler runs, then the document's.
MouseUpNode ==
  /\ pressed # NoId
  /\ over \in NodeIds
  /\ graph' = onMouseUpDocument(onMouseUpNode(graph, over, MouseEvent(pointer)),
                                MouseEvent(pointer))
  /\ owed' = IF \E i \in 1..Len(graph'.calls) : graph'.calls[i].cb = "onCreateEdgeEnd"
               THEN owed \cup {over} ELSE owed
  /\ Released

\* The button goes up over no node: only the document's handler runs.
MouseUpBackground ==
  /\ pressed # NoId
  /\ over = Background
  /\ graph' = onMouseUpDocument(graph, MouseEvent(pointer))
  /\ Released
  /\ UNCHANGED owed

ClickNode ==
  /\ pendingClick \in NodeIds
  /\ graph' = onClickNodeWrapper(graph, pendingClick, MouseEvent(pointer))
  /\ pendingClick' = NoId
  /\ gesture' = [gesture EXCEPT !.phase = "done"]
  /\ owed' = owed \ {pendingClick}
  /\ UNCHANGED << pointer, over, pressed, view, document, selection, path >>

ClickBackground ==
  /\ pendingClick = Background
  /\ graph' = onClickBackgroundWrapper(graph, MouseEvent(pointer))
  /\ pendingClick' = NoId
  /\ gesture' = [gesture EXCEPT !.phase = "done"]
  /\ UNCHANGED << pointer, over, pressed, owed, view, document, selection, path >>

\* The wheel turns over the graph.
Wheel ==
  /\ pendingClick = NoId
  /\ \E scale \in Scales, p \in PanRange :
       /\ scale # graph.transform.scale
       /\ graph' = onWheelContainer(Fresh, scale, p.x, p.y)
  /\ gesture' = Ongoing
  /\ UNCHANGED << pointer, over, pressed, pendingClick, owed, view, document, selection, path >>

Next ==
  \/ MouseDownBackground
  \/ MouseDownNode
  \/ MouseMove
  \/ MouseEnterNode
  \/ MouseLeaveNode
  \/ MouseUpNode
  \/ MouseUpBackground
  \/ ClickNode
  \/ ClickBackground
  \/ Wheel

Spec == Init /\ [][Next]_vars

----------------------------------------------------------------------------
(* The claims *)

\* The calls of the gesture that went to the callback named name, in order.
CallsNamed(name) == SelectSeq(graph.calls, LAMBDA c : c.cb = name)

\* The release of the gesture is within f of its press in both screen axes.
ReleasedWithin(f) ==
  /\ Abs(gesture.release.screenX - gesture.origin.screenX) <= f
  /\ Abs(gesture.release.screenY - gesture.origin.screenY) <= f

\* The button has gone up, with a click still to be delivered or not.
GestureReleased == gesture.phase \in {"up", "done"}

\* The gesture is over and its click went to the element it was pressed on.
GestureClicked == gesture.phase = "done" /\ gesture.releasedOn = gesture.on

\* p moved by the screen displacement from a to b, taken to world space at the
\* current scale.
MovedBy(p, a, b) ==
  [x |-> p.x + DivScale(b.screenX - a.screenX, graph.transform.scale),
   y |-> p.y + DivScale(b.screenY - a.screenY, graph.transform.scale)]

\* C1: a press on a node that starts no edge creation and is released within
\* the fudge factor of its origin in both axes reports no drag end, and its
\* click on the node reaches onClickNode.
C1_StationaryPressClicksNode ==
  (gesture.kind = "drag" /\ GestureClicked /\ ReleasedWithin(graph.clickFudgeFactor))
    => /\ CallsNamed("onNodeDragEnd") = << >>
       /\ Len(CallsNamed("onClickNode")) = 1
       /\ CallsNamed("onClickNode")[1].id = gesture.on

C3_SuppressedClickIdMatches ==
  /\ (pendingClick \in NodeIds /\ graph.shouldSkipNextNodeClick # NoId)
       => graph.shouldSkipNextNodeClick = pendingClick
  /\ CallsNamed("Error") = << >>

\* C4: an edge creation started on a node, whose pointer left a node and whose
\* mouse-up is delivered on the node it started on, calls onCreateEdgeEnd
\* exactly once, from that node to itself, whatever the displacement at release.
C4_SelfEdgeAfterLeaving ==
  (gesture.kind = "edge" /\ GestureReleased /\ gesture.left /\ gesture.releasedOn = gesture.on)
    => CallsNamed("onCreateEdgeEnd")
         = << Call("onCreateEdgeEnd", gesture.on, gesture.on, NoPosition) >>

C4_Witness ==
  /\ gesture.kind = "edge" /\ GestureClicked /\ gesture.left
  /\ gesture.release = gesture.origin
  /\ CallsNamed("onCreateEdgeEnd")
       = << Call("onCreateEdgeEnd", gesture.on, gesture.on, NoPosition) >>

\* C5: an edge creation released on the node it started on, with no mouse-leave
\* in between and within the fudge factor, creates no edge, and the click of
\* the release reaches onClickNode for that node.
C5_StationaryEdgePressClicksNode ==
  (gesture.kind = "edge" /\ GestureClicked /\ ~gesture.left
     /\ ReleasedWithin(graph.clickFudgeFactor))
    => /\ CallsNamed("onCreateEdgeEnd") = << >>
       /\ Len(CallsNamed("onClickNode")) = 1
       /\ CallsNamed("onClickNode")[1].id = gesture.on

C7_PanReleaseDecidesBackgroundClick ==
  (gesture.kind = "pan" /\ GestureClicked)
    => IF ReleasedWithin(graph.clickFudgeFactor)
         THEN Len(CallsNamed("onClickBackground")) = 1
         ELSE CallsNamed("onClickBackground") = << >>

C7_Witness ==
  /\ gesture.kind = "pan" /\ GestureClicked
  /\ ~ReleasedWithin(graph.clickFudgeFactor)
  /\ graph.transform.x # rootRect.width \div 2
  /\ graph.calls = << >>

C9_MovesOfADragAreLocal ==
  [][ (gesture.phase = "down" /\ gesture.kind = "drag" /\ pointer' # pointer)
        => /\ graph.calls = << >>
           /\ graph'.calls = << >>
           /\ \E last \in ScreenPositions : graph' = [graph EXCEPT !.dragState.last = last]
    ]_vars

C9_Witness ==
  /\ gesture.phase = "down" /\ gesture.kind = "drag"
  /\ graph.dragState # undefined
  /\ graph.dragState.last # graph.dragState.start
  /\ graph.calls = << >>

\* The worldSpaceBounds the panzoomchange listener computes, lines 960-970.
worldSpaceBoundsOf(transform) ==
  LET s == [transform |-> transform]
      min == toWorldSpacePosition(s, [clientX |-> rootRect.left, clientY |-> rootRect.top])
      max == toWorldSpacePosition(s, [clientX |-> rootRect.left + rootRect.width,
                                      clientY |-> rootRect.top + rootRect.height])
  IN Bounds(min.x, max.x, min.y, max.y)

\* Every value worldSpaceBounds can hold: the initial one and the one computed
\* at any transform.
AllWorldSpaceBounds ==
  {Bounds(-Infinity, Infinity, -Infinity, Infinity)}
    \cup { worldSpaceBoundsOf([x |-> p.x, y |-> p.y, scale |-> scale]) :
             p \in PanRange, scale \in Scales }

\* Where an end of an edge is to be drawn while a node is pressed: the pressed
\* node displaced by (last - start) / scale, any other node where it is.
ExpectedEnd(id) ==
  IF id = graph.dragState.id
    THEN [graph.nodes[id] EXCEPT
            !.x = MovedBy(graph.nodes[id], graph.dragState.start, graph.dragState.last).x,
            !.y = MovedBy(graph.nodes[id], graph.dragState.start, graph.dragState.last).y]
    ELSE graph.nodes[id]

\* C10: while a node is dragged, every rendered edge gets each end that is the
\* dragged node at the node's position plus (last - start) / scale, and each
\* other end at its unchanged position; so both ends of a self-edge are
\* displaced and an edge not on the dragged node is unchanged.
C10_EdgesFollowTheDraggedNode ==
  graph.dragState # undefined =>
    \A i \in 1..Len(Edges) :
      LET source == ExpectedEnd(Edges[i].sourceId)
          target == ExpectedEnd(Edges[i].targetId)
      IN /\ \A b \in AllWorldSpaceBounds :
              LET r == renderEdge(graph, b, Edges[i]) IN
              r # undefined => r = [edge |-> Edges[i], source |-> source, target |-> target]
         /\ (graph.dragState.id \in {Edges[i].sourceId, Edges[i].targetId}) =>
              DraggingSubgraphEdge(graph.nodes, graph.dragState.id,
                                   graph.dragState.start, graph.dragState.last,
                                   graph.transform.scale, Edges[i])
                = [edge |-> Edges[i], source |-> source, target |-> target]

C10_Witness ==
  /\ graph.dragState # undefined
  /\ graph.dragState.id = "A"
  /\ graph.dragState.last.screenX - graph.dragState.start.screenX = 1
  /\ graph.dragState.last.screenY - graph.dragState.start.screenY = 1
  /\ graph.transform.scale = [num |-> 1, den |-> 2]
  /\ LET r == renderEdge(graph, Bounds(-Infinity, Infinity, -Infinity, Infinity), Edges[1]) IN
     /\ r # undefined
     /\ r.source.x = 2 /\ r.source.y = 2
     /\ r.target.x = 4 /\ r.target.y = 4

----------------------------------------------------------------------------
(* The start of a gesture *)

\* The step is a mouse-down: the button was up and is now down.
IsMouseDown == gesture.phase # "down" /\ gesture'.phase = "down"

\* C11: a node mouse-down that shouldStartCreateEdge accepts creates the
\* edge-create state (source the pressed node, no target, start and last the
\* position of the press, didLeaveOriginalNode false) and no node-drag state,
\* and what shouldStartNodeDrag is or would return changes nothing of it.
C11_EdgeCreateStartsWithoutDrag ==
  [][ (IsMouseDown /\ gesture'.kind = "edge")
        => /\ graph'.incompleteEdge =
                [source |-> graph.nodes[over], target |-> undefined,
                 start |-> pointer, last |-> pointer, didLeaveOriginalNode |-> FALSE]
           /\ graph'.dragState = undefined
           /\ \A shouldStartNodeDrag \in Predicates :
                graph' = onMouseDownNode([graph EXCEPT !.calls = << >>], over,
                                         MouseEvent(pointer),
                                         [supplied |-> TRUE, returns |-> TRUE],
                                         shouldStartNodeDrag)
    ]_vars

C11_Witness ==
  /\ gesture.phase = "down" /\ gesture.kind = "edge" /\ gesture.on = "B"
  /\ graph.incompleteEdge =
       [source |-> graph.nodes["B"], target |-> undefined,
        start |-> gesture.origin, last |-> gesture.origin, didLeaveOriginalNode |-> FALSE]
  /\ graph.dragState = undefined
  /\ graph.shouldSkipNextNodeClick = "B"

\* C12 (as claimed): every onCreateEdgeEnd names the pressed node as source and
\* the node of the mouse-up as target, and the next click delivered to a node
\* that an onCreateEdgeEnd named as target, whenever it comes, does not reach
\* onClickNode.
C12_NextClickOnEdgeTargetIsSuppressed ==
  [][ /\ GestureReleased' =>
           \A i \in 1..Len(graph'.calls) :
             graph'.calls[i].cb = "onCreateEdgeEnd" =>
               graph'.calls[i] = Call("onCreateEdgeEnd", gesture'.on, gesture'.releasedOn,
                                      NoPosition)
      /\ pendingClick \in owed =>
           \A i \in 1..Len(graph'.calls) : graph'.calls[i].cb # "onClickNode"
    ]_vars

\* C12 (amended): every onCreateEdgeEnd of a gesture names the pressed node as
\* source and the node of the mouse-up as target, also when the two are the
\* same node, and the click of that mouse-up does not reach onClickNode.
C12_EdgeEndNamesPressedAndReleasedNode ==
  (GestureReleased /\ CallsNamed("onCreateEdgeEnd") # << >>)
    => /\ \A i \in 1..Len(CallsNamed("onCreateEdgeEnd")) :
            CallsNamed("onCreateEdgeEnd")[i]
              = Call("onCreateEdgeEnd", gesture.on, gesture.releasedOn, NoPosition)
       /\ CallsNamed("onClickNode") = << >>

\* A self-edge made without ever leaving the node, so with no hover target
\* recorded, whose click was delivered to the node.
C12_Witness ==
  /\ gesture.kind = "edge" /\ GestureClicked /\ ~gesture.left
  /\ graph.calls = << Call("onCreateEdgeEnd", gesture.on, gesture.on, NoPosition) >>

\* The calls to the callback named name among calls.
Named(calls, name) == SelectSeq(calls, LAMBDA c : c.cb = name)

\* C13: onNodeDragEnd is invoked only in a gesture whose node mouse-down
\* shouldStartNodeDrag accepted (recorded as dragState.dragging); a gesture the
\* predicate rejected invokes no onNodeDragEnd, whatever its displacement.
C13_DragEndOnlyForAcceptedDrag ==
  [][ Len(Named(graph'.calls, "onNodeDragEnd")) > Len(Named(Fresh.calls, "onNodeDragEnd"))
        => (graph.dragState # undefined /\ graph.dragState.dragging)
    ]_vars

\* The step is a mouse-move of a gesture whose deciding predicate (shouldStartPan
\* on the background, shouldStartNodeDrag on a node) the caller did not supply.
MoveWithoutPredicate(kind) ==
  /\ gesture.phase = "down" /\ gesture.kind = kind /\ gesture.noPredicate
  /\ pointer' # pointer

\* The node n as the render, lines 1068-1075, hands it to props.renderNode.
transformedNode(s, n) ==
  IF s.dragState # undefined /\ s.dragState.id = n.id
    THEN displaced(n, s.dragState.start, s.dragState.last, s.transform.scale)
    ELSE n

renderIncompleteEdge(s) ==
  IF s.incompleteEdge # undefined
    THEN [source |-> s.incompleteEdge.source,
          position |->
            [x |-> DivScale(s.incompleteEdge.last.screenX - s.incompleteEdge.start.screenX,
                            s.transform.scale) + s.incompleteEdge.source.x,
             y |-> DivScale(s.incompleteEdge.last.screenY - s.incompleteEdge.start.screenY,
                            s.transform.scale) + s.incompleteEdge.source.y],
          target |-> s.incompleteEdge.target]
    ELSE undefined

\* The step is a mouse-enter of a node.
IsMouseEnter == over = Background /\ over' \in NodeIds

IsMouseLeave == over \in NodeIds /\ over' = Background

\* C16: after a mouse-leave of a node during an edge creation the edge-create
\* state has no target and didLeaveOriginalNode true, and is otherwise as it
\* was; with no edge creation in progress a mouse-leave changes nothing of the
\* component.
C16_LeaveClearsTargetAndSetsFlag ==
  [][ IsMouseLeave =>
        IF graph.incompleteEdge # undefined
          THEN /\ graph'.incompleteEdge.target = undefined
               /\ graph'.incompleteEdge.didLeaveOriginalNode
               /\ graph' = [graph EXCEPT !.incompleteEdge.target = undefined,
                                         !.incompleteEdge.didLeaveOriginalNode = TRUE]
          ELSE graph' = Fresh
    ]_vars

\* The source node was left without a target ever having been recorded.
C16_Witness ==
  /\ gesture.phase = "down" /\ gesture.kind = "edge" /\ gesture.left
  /\ over = Background
  /\ graph.incompleteEdge # undefined
  /\ graph.incompleteEdge.target = undefined
  /\ graph.incompleteEdge.didLeaveOriginalNode
  /\ graph.incompleteEdge.last = graph.incompleteEdge.start

\* C17: while one edge creation lasts, didLeaveOriginalNode once true stays
\* true under every event (mouse-move, mouse-enter, mouse-leave, wheel), and in
\* a state where it is true and no target is recorded a mouse-leave leaves the
\* edge-create state as it is.
C17_DidLeaveIsMonotone ==
  [][ (graph.incompleteEdge # undefined /\ graph.incompleteEdge.didLeaveOriginalNode)
        => /\ graph'.incompleteEdge # undefined => graph'.incompleteEdge.didLeaveOriginalNode
           /\ graph.incompleteEdge.target = undefined =>
                onMouseLeaveNode(graph).incompleteEdge = graph.incompleteEdge
    ]_vars

\* The pointer left the source, moved, and is now on the other node.
C17_Witness ==
  /\ gesture.phase = "down" /\ gesture.kind = "edge" /\ gesture.left
  /\ over \in NodeIds /\ over # gesture.on
  /\ graph.incompleteEdge # undefined
  /\ graph.incompleteEdge.didLeaveOriginalNode
  /\ graph.incompleteEdge.target = graph.nodes[over]
  /\ graph.incompleteEdge.last # graph.incompleteEdge.start

----------------------------------------------------------------------------
(* The render under every props.nodes and props.edges *)

\* The edge collections have at most MaxEdges edges.
MaxEdges == 2

\* An id that no node of any node collection has.
MissingId == "Z"

\* The i-th edge of a collection, from source to target.
EdgeOf(i, ends) == [id |-> "e" \o ToString(i), sourceId |-> ends[1], targetId |-> ends[2]]

\* Every props.edges of at most MaxEdges edges between the nodes and the missing id.
EdgeCollections ==
  UNION { { [i \in 1..n |-> EdgeOf(i, ends[i])] :
              ends \in [1..n -> (NodeIds \cup {MissingId}) \X (NodeIds \cup {MissingId})] } :
          n \in 0..MaxEdges }

\* props.edges.map(...), lines 1014-1050: what the render makes of each edge.
renderEdges(s, worldSpaceBounds, edges) ==
  [i \in 1..Len(edges) |-> renderEdge(s, worldSpaceBounds, edges[i])]

\* The caller passes another props.nodes: some of the nodes are gone, or back.
SetNodes ==
  /\ \E ids \in SUBSET NodeIds :
       /\ ids # DOMAIN graph.nodes
       /\ graph' = [graph EXCEPT !.nodes = [id \in ids |-> InitialNodes[id]]]
  /\ UNCHANGED << pointer, over, pressed, pendingClick, gesture, owed, view, document, selection, path >>

\* The caller passes another props.edges.
SetEdges ==
  /\ \E edges \in EdgeCollections :
       /\ edges # view.edges
       /\ view' = [view EXCEPT !.edges = edges]
  /\ UNCHANGED << graph, pointer, over, pressed, pendingClick, gesture, owed, document, selection, path >>

\* A setWorldSpaceBounds of the panzoomchange listener takes effect.
SetWorldSpaceBounds ==
  /\ \E b \in AllWorldSpaceBounds :
       /\ b # view.worldSpaceBounds
       /\ view' = [view EXCEPT !.worldSpaceBounds = b]
  /\ UNCHANGED << graph, pointer, over, pressed, pendingClick, gesture, owed, document, selection, path >>

NextRender ==
  \/ SetNodes
  \/ SetEdges
  \/ SetWorldSpaceBounds

SpecRender == Init /\ [][NextRender]_vars

\* The edge has an end that is not in the node collection.
Dangling(e) == e.sourceId \notin DOMAIN graph.nodes \/ e.targetId \notin DOMAIN graph.nodes

\* The box spanned by the two points has nothing in common with the inside of b.
BoxOutside(b, n1, n2) ==
  \/ Max(n1.x, n2.x) <= b.minX \/ Min(n1.x, n2.x) >= b.maxX
  \/ Max(n1.y, n2.y) <= b.minY \/ Min(n1.y, n2.y) >= b.maxY

\* C18: whatever props.nodes and props.edges are, the render of the edges
\* throws nothing, leaves out every edge with an end missing from the nodes,
\* and renders every other edge, with its two nodes, unless it is culled.
C18_DanglingEdgesAreSkipped ==
  LET r == renderEdges(graph, view.worldSpaceBounds, view.edges) IN
  \A i \in 1..Len(view.edges) :
    LET e == view.edges[i] IN
    /\ r[i] # TypeError
    /\ IF Dangling(e)
         THEN r[i] = undefined
         ELSE IF BoxOutside(view.worldSpaceBounds,
                            graph.nodes[e.sourceId], graph.nodes[e.targetId])
                THEN r[i] = undefined
                ELSE r[i] = [edge |-> e, source |-> graph.nodes[e.sourceId],
                             target |-> graph.nodes[e.targetId]]

\* Node B is gone: the edge to it is left out and the self-edge of A after it
\* is rendered.
C18_Witness ==
  /\ DOMAIN graph.nodes = {"A"}
  /\ Len(view.edges) = 2
  /\ view.edges[1].sourceId = "A" /\ view.edges[1].targetId = "B"
  /\ view.edges[2].sourceId = "A" /\ view.edges[2].targetId = "A"
  /\ renderEdges(graph, view.worldSpaceBounds, view.edges)
       = << undefined, [edge |-> view.edges[2], source |-> graph.nodes["A"],
                        target |-> graph.nodes["A"]] >>

----------------------------------------------------------------------------
(* The viewport: pans, zooms and the throttled worldSpaceBounds *)

\* The pointer of the viewport's gestures moves along the diagonal of the
\* screen, up to MaxViewPan pixels from its corner, and the pan offset stays
\* within MaxViewPan, both axes together, of the offset set at mount.
MaxViewPan == 3

ViewPositions == { [screenX |-> k, screenY |-> k] : k \in 0..MaxViewPan }

ViewOffsets ==
  { [x |-> rootRect.width \div 2 + k, y |-> rootRect.height \div 2 + k] :
      k \in (-MaxViewPan)..MaxViewPan }

\* A predicate prop that is supplied and accepts the event.
Accepts == [supplied |-> TRUE, returns |-> TRUE]

\* containsNode that tests the centre of the node, not its box.
containsNode_centreOnly(b, n) == overlaps(b, n.x, n.x, n.y, n.y)

\* Bounds.containsNode; the halves are exact for the even sizes of the nodes.
containsNode(b, n) ==
  LET halfWidth == n.width \div 2
      halfHeight == n.height \div 2
  IN overlaps(b, n.x - halfWidth, n.x + halfWidth, n.y - halfHeight, n.y + halfHeight)

\* props.nodes.map(...), lines 1067-1095: what the render hands to
\* props.renderNode for each node, undefined for a node it leaves out.
renderNodes(s, worldSpaceBounds) ==
  [id \in DOMAIN s.nodes |->
     IF containsNode(worldSpaceBounds, s.nodes[id])
       THEN transformedNode(s, s.nodes[id])
       ELSE undefined]

\* throttle(setValue, 200)(value), leading and trailing: the value is set at
\* once, or kept as the last arguments for the end of the window; which of the
\* two depends on the clock.  Within an open window it is always kept.
throttledSet(t, value) ==
  {[t EXCEPT !.lastArgs = value, !.timer = TRUE]}
    \cup (IF t.timer THEN {}
          ELSE {[t EXCEPT !.worldSpaceBounds = value, !.lastArgs = undefined, !.timer = TRUE]})

\* timerExpired of a throttle without a trailing edge: the arguments kept
\* during the window are dropped.
timerExpired_noTrailing(t) == [t EXCEPT !.lastArgs = undefined, !.timer = FALSE]

\* The window of the throttle ends: the last arguments kept, if any, are set.
timerExpired(t) ==
  IF t.lastArgs # undefined
    THEN [t EXCEPT !.worldSpaceBounds = t.lastArgs, !.lastArgs = undefined, !.timer = FALSE]
    ELSE [t EXCEPT !.timer = FALSE]

\* The panzoomchange listener, lines 949-972, after the transform became
\* transform: the views it can leave.
onPanzoomchange(v, transform) == throttledSet(v, worldSpaceBoundsOf(transform))

\* The button goes down over the background and shouldStartPan accepts.
ViewMouseDownBackground ==
  /\ pressed = NoId
  /\ graph' = onMouseDownBackground(graph, MouseEvent(pointer), Accepts)
  /\ pressed' = Background
  /\ UNCHANGED << pointer, over, pendingClick, gesture, owed, view, document, selection, path >>

\* The button goes down over a node that is rendered, and shouldStartNodeDrag
\* accepts.
ViewMouseDownNode ==
  /\ pressed = NoId
  /\ \E id \in DOMAIN graph.nodes :
       /\ renderNodes(graph, view.worldSpaceBounds)[id] # undefined
       /\ graph' = onMouseDownNode(graph, id, MouseEvent(pointer), NoPredicate, Accepts)
       /\ pressed' = id
  /\ UNCHANGED << pointer, over, pendingClick, gesture, owed, view, document, selection, path >>

\* The pointer moves to p; a move that pans fires panzoomchange.
ViewMouseMove ==
  /\ \E p \in ViewPositions :
       /\ p # pointer
       /\ graph' = onMouseMoveDocument(graph, MouseEvent(p))
       /\ [x |-> graph'.transform.x, y |-> graph'.transform.y] \in ViewOffsets
       /\ pointer' = p
  /\ IF graph'.transform # graph.transform
       THEN view' \in onPanzoomchange(view, graph'.transform)
       ELSE view' = view
  /\ UNCHANGED << over, pressed, pendingClick, gesture, owed, document, selection, path >>

\* The button goes up; the calls of the gesture are not the render's to keep.
ViewMouseUp ==
  /\ pressed # NoId
  /\ graph' = [onMouseUpDocument(graph, MouseEvent(pointer)) EXCEPT !.calls = << >>]
  /\ pressed' = NoId
  /\ UNCHANGED << pointer, over, pendingClick, gesture, owed, view, document, selection, path >>

\* The wheel turns over the graph, in a gesture or out of one.
ViewWheel ==
  /\ \E scale \in Scales, p \in ViewOffsets :
       /\ scale # graph.transform.scale
       /\ graph' = onWheelContainer(graph, scale, p.x, p.y)
  /\ view' \in onPanzoomchange(view, graph'.transform)
  /\ UNCHANGED << pointer, over, pressed, pendingClick, gesture, owed, document, selection, path >>

\* The window of the throttle ends.
ThrottleTimer ==
  /\ view.timer
  /\ view' = timerExpired(view)
  /\ UNCHANGED << graph, pointer, over, pressed, pendingClick, gesture, owed, document, selection, path >>

NextView ==
  \/ ViewMouseDownBackground
  \/ ViewMouseDownNode
  \/ ViewMouseMove
  \/ ViewMouseUp
  \/ ViewWheel
  \/ ThrottleTimer

SpecView == Init /\ [][NextView]_vars

\* The box of the node, its position plus and minus half its width and half
\* its height, has nothing in common with the inside of b.
NodeBoxOutside(b, n) ==
  \/ 2 * n.x + n.width <= 2 * b.minX \/ 2 * n.x - n.width >= 2 * b.maxX
  \/ 2 * n.y + n.height <= 2 * b.minY \/ 2 * n.y - n.height >= 2 * b.maxY

\* The ids of the nodes in the rendered node list.
Rendered == { id \in DOMAIN graph.nodes : renderNodes(graph, view.worldSpaceBounds)[id] # undefined }

\* The viewport: the bounds the listener computes from the transform as it is.
Viewport == worldSpaceBoundsOf(graph.transform)

\* C19: a node whose box lies entirely outside the stored worldSpaceBounds is
\* not in the rendered node list; and once every recompute of the bounds has
\* been applied, a node whose box the pans and zooms brought inside the
\* viewport is in it.
C19_NodesAreCulledByStoredBounds ==
  \A id \in DOMAIN graph.nodes :
    /\ NodeBoxOutside(view.worldSpaceBounds, graph.nodes[id]) => id \notin Rendered
    /\ (view.lastArgs = undefined /\ ~NodeBoxOutside(Viewport, graph.nodes[id]))
         => id \in Rendered

\* A pan has brought node B, outside the viewport at mount, inside it and
\* node A out of it, and the recomputed bounds are applied: B is rendered and
\* A is not.
C19_Witness ==
  /\ view.lastArgs = undefined
  /\ view.worldSpaceBounds = Viewport
  /\ graph.transform.scale = [num |-> 1, den |-> 1]
  /\ graph.panState # undefined
  /\ ~NodeBoxOutside(Viewport, graph.nodes["B"])
  /\ Rendered = {"B"}

\* C20: while a node drag is active the dragged node is in the rendered node
\* list, wherever its original and its displaced position lie with respect to
\* the stored bounds.
C20_DraggedNodeIsRendered ==
  (graph.dragState # undefined /\ graph.dragState.dragging)
    => graph.dragState.id \in Rendered

----------------------------------------------------------------------------
(* The throttle left to run *)

NextThrottle ==
  \/ ViewMouseDownBackground
  \/ ViewMouseMove
  \/ ViewMouseUp
  \/ ViewWheel
  \/ ThrottleTimer

\* The timer of the throttle is a setTimeout: once set it fires.
SpecThrottle == Init /\ [][NextThrottle]_vars /\ WF_vars(ThrottleTimer)

\* C21: the bounds the throttle keeps for the end of its window are those of
\* the transform as it is, the stored bounds are those of the transform as it
\* is whenever some were stored and none are kept, and bounds that are kept
\* are stored in the end: with no further notification the stored bounds come
\* to equal those of the final pan and scale.
C21_StoredBoundsCatchUp ==
  /\ [](view.lastArgs # undefined => view.lastArgs = Viewport)
  /\ []((view.lastArgs = undefined /\ view.worldSpaceBounds # InitialView.worldSpaceBounds)
          => view.worldSpaceBounds = Viewport)
  /\ (view.lastArgs # undefined) ~> (view.lastArgs = undefined)

\* In a burst of notifications: the stored bounds are those of an older
\* transform and the bounds of the latest are kept for the end of the window.
C21_Witness ==
  /\ view.timer
  /\ view.lastArgs = Viewport
  /\ view.worldSpaceBounds # InitialView.worldSpaceBounds
  /\ view.worldSpaceBounds # Viewport

----------------------------------------------------------------------------
(* Mounted and unmounted *)

\* The listeners of the type that the document holds.
ListenersFor(type) == SelectSeq(document.listeners, LAMBDA l : l.type = type)

\* The button goes down over a node of the mounted component.
DocMouseDownNode ==
  /\ document.mounted
  /\ pressed = NoId
  /\ \E id \in DOMAIN graph.nodes, shouldStartNodeDrag \in Predicates :
       /\ graph' = onMouseDownNode([graph EXCEPT !.calls = << >>], id, MouseEvent(pointer),
                                   NoPredicate, shouldStartNodeDrag)
       /\ pressed' = id
  /\ UNCHANGED << pointer, over, pendingClick, gesture, owed, view, document, selection, path >>

\* The effects of the last render run: a listener that changed is registered
\* in place of the one before it.
RunEffects ==
  /\ document.mounted
  /\ ListenersOf(graph) # document.captured
  /\ document' = runEffects(document, graph)
  /\ UNCHANGED << graph, pointer, over, pressed, pendingClick, gesture, owed, view, selection, path >>

\* The pointer moves to p, over the component or not, mounted or not.
DocumentMouseMove ==
  /\ \E p \in ScreenPositions :
       /\ p # pointer
       /\ graph' = dispatchEvent(graph, document.listeners, "mousemove", MouseEvent(p))
       /\ pointer' = p
  /\ UNCHANGED << over, pressed, pendingClick, gesture, owed, view, document, selection, path >>

\* The button goes up, over the component or not, mounted or not.
DocumentMouseUp ==
  /\ pressed # NoId
  /\ graph' = dispatchEvent(graph, document.listeners, "mouseup", MouseEvent(pointer))
  /\ pressed' = NoId
  /\ UNCHANGED << pointer, over, pendingClick, gesture, owed, view, document, selection, path >>

\* The caller unmounts the component, in a gesture or out of one.
Unmount ==
  /\ document.mounted
  /\ document' = unmount(document)
  /\ UNCHANGED << graph, pointer, over, pressed, pendingClick, gesture, owed, view, selection, path >>

NextDocument ==
  \/ DocMouseDownNode
  \/ RunEffects
  \/ DocumentMouseMove
  \/ DocumentMouseUp
  \/ Unmount

SpecDocument == Init /\ [][NextDocument]_vars

\* C22: while the component is mounted the document holds exactly one
\* mousemove and one mouseup listener of it, after the unmount it holds none,
\* and no step after the unmount changes the gesture state or makes a call.
C22_ListenersLiveAndDieWithTheComponent ==
  /\ [](document.mounted =>
          Len(ListenersFor("mousemove")) = 1 /\ Len(ListenersFor("mouseup")) = 1)
  /\ [](~document.mounted => document.listeners = << >>)
  /\ [][~document.mounted => graph' = graph]_vars

\* The component was unmounted in the middle of a drag whose listeners had
\* been registered again, and the button is still down.
C22_Witness ==
  /\ ~document.mounted
  /\ pressed # NoId
  /\ graph.dragState # undefined /\ graph.dragState.dragging
  /\ graph.dragState.last # graph.dragState.start
  /\ document.captured = ListenersOf(graph)

----------------------------------------------------------------------------
(* The gesture slots *)

\* The gesture slots of s that hold a gesture.
Slots(s) ==
  {k \in {"pan", "drag", "edge"} :
     IF k = "pan" THEN s.panState # undefined
     ELSE IF k = "drag" THEN s.dragState # undefined
     ELSE s.incompleteEdge # undefined}

----------------------------------------------------------------------------
(* The calls on the selection set *)

\* The calls stop after MaxNonce notifications.
MaxNonce == 3

Add ==
  /\ selection.nonce < MaxNonce
  /\ \E id \in SelectionIds :
       selection' = [add(selection, id) EXCEPT !.last = [op |-> "add", id |-> id]]
  /\ UNCHANGED << graph, pointer, over, pressed, pendingClick, gesture, owed, view, document,
                  path >>

Remove ==
  /\ selection.nonce < MaxNonce
  /\ \E id \in SelectionIds :
       selection' = [remove(selection, id) EXCEPT !.last = [op |-> "remove", id |-> id]]
  /\ UNCHANGED << graph, pointer, over, pressed, pendingClick, gesture, owed, view, document,
                  path >>

Toggle ==
  /\ selection.nonce < MaxNonce
  /\ \E id \in SelectionIds :
       selection' = [toggle(selection, id) EXCEPT !.last = [op |-> "toggle", id |-> id]]
  /\ UNCHANGED << graph, pointer, over, pressed, pendingClick, gesture, owed, view, document,
                  path >>

Reset ==
  /\ selection.nonce < MaxNonce
  /\ \E id \in ResetArguments :
       selection' = [reset(selection, id) EXCEPT !.last = [op |-> "reset", id |-> id]]
  /\ UNCHANGED << graph, pointer, over, pressed, pendingClick, gesture, owed, view, document,
                  path >>

NextSelection ==
  \/ Add
  \/ Remove
  \/ Toggle
  \/ Reset

SpecSelection == Init /\ [][NextSelection]_vars

\* The step is a call of op on the selection set.
Called(op) == selection' # selection /\ selection'.last.op = op

\* The notifications of the step.
Notifications == selection'.nonce - selection.nonce

\* C24: each add and each remove notifies once when it changes the
\* membership and not at all when it does not; an add of an id that is there
\* and a remove of one that is not change nothing.
C24_AddAndRemoveNotifyOnChange ==
  [][(Called("add") \/ Called("remove")) =>
       /\ Notifications = (IF selection'.set # selection.set THEN 1 ELSE 0)
       /\ (Called("add") /\ has(selection, selection'.last.id)) => selection'.set = selection.set
       /\ (Called("remove") /\ ~has(selection, selection'.last.id))
            => selection'.set = selection.set
       /\ Called("add") => selection'.set = selection.set \cup {selection'.last.id}
       /\ Called("remove") => selection'.set = selection.set \ {selection'.last.id}]_vars

\* add("n1") twice on an empty set: one notification.
C24_Witness ==
  /\ selection.set = {"n1"}
  /\ selection.nonce = 1
  /\ selection.last = [op |-> "add", id |-> "n1"]
  /\ add(selection, "n1") = selection

\* C25: a reset that leaves the membership as it was notifies nobody.
C25_ResetNotifiesOnChangeOnly ==
  [][(Called("reset") /\ selection'.set = selection.set) => Notifications = 0]_vars

\* C26: after reset(x), has(y) is true exactly for y = x; after reset() it
\* is false for every y.
C26_ResetLeavesTheArgumentOnly ==
  [][Called("reset") =>
       \A y \in SelectionIds :
         has(selection', y) <=> (selection'.last.id # NoArgument /\ y = selection'.last.id)]_vars

\* reset("") after two notifications leaves the empty string, alone.
C26_Witness ==
  /\ selection.last = [op |-> "reset", id |-> ""]
  /\ selection.set = {""}
  /\ selection.nonce = 3

\* C27: toggle(id) flips the membership of id and of no other id, two
\* toggle(id) in a row restore the membership, and toggle(id) after add(id)
\* removes id.
C27_ToggleFlipsOneId ==
  /\ [][Called("toggle") =>
          \A y \in SelectionIds :
            has(selection', y) <=> (IF y = selection'.last.id THEN ~has(selection, y)
                                    ELSE has(selection, y))]_vars
  /\ [](\A id \in SelectionIds :
          /\ toggle(toggle(selection, id), id).set = selection.set
          /\ ~has(toggle(add(selection, id), id), id))

\* An id was added and then toggled away while another stayed.
C27_Witness ==
  /\ selection.last = [op |-> "toggle", id |-> "n1"]
  /\ selection.set = {"n2"}
  /\ selection.nonce = 3

----------------------------------------------------------------------------
(* The calls of pathD *)

\* The ends of the paths have coordinates from 0 to MaxPathCoord.
MaxPathCoord == 2

PathPositions == [x : 0..MaxPathCoord, y : 0..MaxPathCoord]

\* An edge component asks for the path between two positions.
PathD ==
  /\ \E source \in PathPositions, target \in PathPositions,
        pathType \in PathTypes, preferredPathDirection \in PathDirections :
       path' = [source |-> source, target |-> target, pathType |-> pathType,
                preferredPathDirection |-> preferredPathDirection,
                d |-> pathD(source, target, pathType, preferredPathDirection)]
  /\ UNCHANGED << graph, pointer, over, pressed, pendingClick, gesture, owed, view, document,
                  selection >>

NextPath == PathD

SpecPath == Init /\ [][NextPath]_vars

\* The first and the last point of a path.
FirstPoint(d) == d[1].points[1]
LastPoint(d) == d[Len(d)].points[Len(d[Len(d)].points)]

\* The point the path makes for after its first.
SecondPoint(d) == d[2].points[1]

\* C28: a straight path is the one segment from its first position to its
\* second, whatever the preferred direction, and the path asked for the other
\* way round is that segment with its ends swapped.
C28_StraightIsOneSegmentEitherWay ==
  path.pathType = "straight" =>
    /\ Len(path.d) = 2
    /\ path.d[1].letter = "M" /\ path.d[2].letter = "L"
    /\ Len(path.d[1].points) = 1 /\ Len(path.d[2].points) = 1
    /\ FirstPoint(path.d) = Point(path.source.x, path.source.y)
    /\ LastPoint(path.d) = Point(path.target.x, path.target.y)
    /\ \A direction \in PathDirections :
         /\ pathD(path.source, path.target, "straight", direction) = path.d
         /\ LET back == pathD(path.target, path.source, "straight", direction) IN
            /\ Len(back) = 2
            /\ back[1].letter = "M" /\ back[2].letter = "L"
            /\ FirstPoint(back) = LastPoint(path.d)
            /\ LastPoint(back) = FirstPoint(path.d)

\* A straight path asked for from right to left, with a preferred direction.
C28_Witness ==
  /\ path.pathType = "straight"
  /\ path.preferredPathDirection = "vertical-first"
  /\ path.source.x > path.target.x
  /\ path.source.y < path.target.y

----------------------------------------------------------------------------
(* The position of a click *)

\* The step delivers a click and the click reaches the caller, as a call of
\* onClickNode or of onClickBackground.
IsDeliveredClick ==
  /\ pendingClick # NoId /\ pendingClick' = NoId
  /\ Len(graph'.calls) = Len(graph.calls) + 1
  /\ graph'.calls[Len(graph'.calls)].cb \in {"onClickNode", "onClickBackground"}

\* The view transform, world to screen offset from the container's origin:
\* a world position w is drawn at scale * (w + pan).  Holds when the world
\* position w is drawn at the screen offset c.
DrawnAt(transform, w, c) ==
  /\ (w.x + transform.x) * transform.scale.num = c.x * transform.scale.den
  /\ (w.y + transform.y) * transform.scale.num = c.y * transform.scale.den

\* The pointer's offset from the container's origin.
ContainerOffset(p) ==
  [x |-> p.screenX - rootRect.left - rootRect.clientLeft,
   y |-> p.screenY - rootRect.top - rootRect.clientTop]

\* C30: the position delivered with a click is the pointer's offset from the
\* container's origin taken back through the view transform, offset / scale
\* minus pan; and right after the mount the centre of the container is the
\* world's origin.
C30_ClickPositionInvertsTheTransform ==
  /\ toWorldSpacePosition(graph, [clientX |-> rootRect.left + rootRect.width \div 2,
                                  clientY |-> rootRect.top + rootRect.height \div 2])
       = [x |-> 0, y |-> 0]
  /\ [][IsDeliveredClick =>
          DrawnAt(graph.transform, graph'.calls[Len(graph'.calls)].position,
                  ContainerOffset(pointer))]_vars

\* A click on the background delivered at half scale, away from the
\* container's origin and with the pan off its value at the mount.
C30_Witness ==
  /\ graph.calls # << >>
  /\ graph.calls[Len(graph.calls)].cb = "onClickBackground"
  /\ pendingClick = NoId /\ gesture.phase = "done"
  /\ graph.transform.scale = [num |-> 1, den |-> 2]
  /\ graph.transform.x # rootRect.width \div 2
  /\ pointer = [screenX |-> 1, screenY |-> 1]
  /\ graph.calls[Len(graph.calls)].position
       = [x |-> 2 - graph.transform.x, y |-> 2 - graph.transform.y]

----------------------------------------------------------------------------
(* The pan, move by move *)

\* History of a press on the background: where the pointer and the transform
\* were, whether the wheel turned since, and how many moves there were, up to
\* two.
PanGesture(origin, transform) ==
  [phase |-> "down", origin |-> origin, transform |-> transform, zoomed |-> FALSE, moves |-> 0]

\* The button goes down over the background.
PanMouseDown ==
  /\ pressed = NoId
  /\ \E shouldStartPan \in Predicates :
       graph' = onMouseDownBackground(graph, MouseEvent(pointer), shouldStartPan)
  /\ pressed' = Background
  /\ gesture' = PanGesture(pointer, graph.transform)
  /\ UNCHANGED << pointer, over, pendingClick, owed, view, document, selection, path >>

\* The pointer moves to p.
PanMouseMove ==
  /\ \E p \in ViewPositions :
       /\ p # pointer
       /\ graph' = onMouseMoveDocument(graph, MouseEvent(p))
       /\ [x |-> graph'.transform.x, y |-> graph'.transform.y] \in ViewOffsets
       /\ pointer' = p
  /\ gesture' = IF pressed # NoId THEN [gesture EXCEPT !.moves = Min(@ + 1, 2)] ELSE gesture
  /\ UNCHANGED << over, pressed, pendingClick, owed, view, document, selection, path >>

\* The wheel turns, in a pan or out of one.
PanWheel ==
  /\ \E scale \in Scales, p \in ViewOffsets :
       /\ scale # graph.transform.scale
       /\ graph' = onWheelContainer(graph, scale, p.x, p.y)
  /\ gesture' = IF pressed # NoId THEN [gesture EXCEPT !.zoomed = TRUE] ELSE gesture
  /\ UNCHANGED << pointer, over, pressed, pendingClick, owed, view, document, selection, path >>

\* The button goes up.
PanMouseUp ==
  /\ pressed # NoId
  /\ graph' = onMouseUpDocument(graph, MouseEvent(pointer))
  /\ pressed' = NoId
  /\ gesture' = IdleGesture
  /\ UNCHANGED << pointer, over, pendingClick, owed, view, document, selection, path >>

NextPan ==
  \/ PanMouseDown
  \/ PanMouseMove
  \/ PanWheel
  \/ PanMouseUp

SpecPan == Init /\ [][NextPan]_vars

\* A pan is in progress.
Panning == pressed # NoId /\ graph.panState # undefined /\ graph.panState.panning

\* d world units are v screen pixels at the scale: d = v / scale.
IsScaled(d, v, scale) == d * scale.num = v * scale.den

\* C31: each mouse-move of a pan shifts the transform by the move of the
\* pointer since the last position, divided by the scale, and makes the
\* pointer's position the last; so with the scale left alone the transform has
\* shifted, since the press, by (last - origin) / scale in each axis.
C31_PanFollowsThePointer ==
  /\ [][(Panning /\ pointer' # pointer) =>
          /\ IsScaled(graph'.transform.x - graph.transform.x,
                      pointer'.screenX - graph.panState.last.screenX, graph.transform.scale)
          /\ IsScaled(graph'.transform.y - graph.transform.y,
                      pointer'.screenY - graph.panState.last.screenY, graph.transform.scale)
          /\ graph'.transform.scale = graph.transform.scale
          /\ graph'.panState.last = pointer']_vars
  /\ []((Panning /\ ~gesture.zoomed) =>
          /\ IsScaled(graph.transform.x - gesture.transform.x,
                      graph.panState.last.screenX - gesture.origin.screenX,
                      graph.transform.scale)
          /\ IsScaled(graph.transform.y - gesture.transform.y,
                      graph.panState.last.screenY - gesture.origin.screenY,
                      graph.transform.scale))

\* A pan at half scale after two moves or more, one pixel from its origin:
\* the transform has shifted by two.
C31_Witness ==
  /\ Panning /\ ~gesture.zoomed
  /\ gesture.moves = 2
  /\ graph.transform.scale = [num |-> 1, den |-> 2]
  /\ graph.panState.last.screenX - gesture.origin.screenX = 1
  /\ graph.transform.x - gesture.transform.x = 2

----------------------------------------------------------------------------
(* The end of a gesture *)

\* The step is a mouse-up: the node's handler, if the pointer is over a node,
\* and then the document's.
IsMouseUp == pressed # NoId /\ pressed' = NoId

HighLevelCalls ==
  SelectSeq(graph.calls,
            LAMBDA c : c.cb \in {"onClickNode", "onClickBackground", "onNodeDragEnd",
                                 "onCreateEdgeEnd"})

MoveAfterRejection(kind) ==
  /\ gesture.phase = "down" /\ gesture.kind = kind /\ gesture.rejected
  /\ pointer' # pointer

\* C34: after a background mouse-down for which shouldStartPan returned false,
\* no mouse-move of the gesture changes the offset or the scale of the
\* transform; after a node mouse-down for which shouldStartNodeDrag returned
\* false, the node is rendered where the caller put it for as long as the
\* button is down.
C34_RejectedGestureMovesNothing ==
  /\ [][MoveAfterRejection("pan") => graph'.transform = graph.transform]_vars
  /\ [](gesture.phase = "down" /\ gesture.kind = "drag" /\ gesture.rejected
          => transformedNode(graph, graph.nodes[gesture.on]) = graph.nodes[gesture.on])

\* The pointer moved after a node mouse-down whose drag the predicate rejected.
C34_Witness ==
  /\ gesture.phase = "down" /\ gesture.kind = "drag" /\ gesture.rejected
  /\ pointer # gesture.origin
  /\ graph.dragState # undefined
  /\ ~graph.dragState.dragging
  /\ graph.dragState.id = gesture.on

\* C35: no suppressed-click id of an earlier gesture is pending while the
\* button of a later gesture is down, so that a press on a node that starts no
\* edge creation, released within the fudge factor and clicked, calls
\* onClickNode for that node exactly once.
C35_NoSuppressionOutlivesItsGesture ==
  /\ gesture.phase = "down" => graph.shouldSkipNextNodeClick = NoId
  /\ (gesture.kind = "drag" /\ GestureClicked /\ ReleasedWithin(graph.clickFudgeFactor))
       => /\ Len(CallsNamed("onClickNode")) = 1
          /\ CallsNamed("onClickNode")[1].id = gesture.on

\* C36: the mouse-up of every gesture pressed on the background sets
\* shouldSkipNextBackgroundClick anew from the displacement of that gesture, so
\* a press on the background released within the fudge factor and clicked
\* calls onClickBackground exactly once, also when an earlier pan left the
\* flag set.
C36_BackgroundClickSurvivesEarlierPan ==
  /\ (gesture.kind = "pan" /\ gesture.phase = "up")
       => graph.shouldSkipNextBackgroundClick = ~ReleasedWithin(graph.clickFudgeFactor)
  /\ (gesture.kind = "pan" /\ GestureClicked /\ ReleasedWithin(graph.clickFudgeFactor))
       => Len(CallsNamed("onClickBackground")) = 1

\* The flag was still set by an earlier pan when the background was pressed,
\* and the click of the stationary press reached onClickBackground.
C36_Witness ==
  /\ gesture.kind = "pan" /\ GestureClicked
  /\ gesture.skipAtPress
  /\ ReleasedWithin(graph.clickFudgeFactor)
  /\ Len(CallsNamed("onClickBackground")) = 1
  /\ ~graph.shouldSkipNextBackgroundClick

\* C37: while an edge creation is in progress and the pointer enters a node
\* only after leaving the one it was on, a recorded target comes with
\* didLeaveOriginalNode true.
C37_TargetImpliesDidLeave ==
  (graph.incompleteEdge # undefined /\ graph.incompleteEdge.target # undefined)
    => graph.incompleteEdge.didLeaveOriginalNode

\* The source node is the recorded target: the pointer left it, moved and came
\* back.
C37_Witness ==
  /\ gesture.phase = "down" /\ gesture.kind = "edge"
  /\ graph.incompleteEdge # undefined
  /\ graph.incompleteEdge.target = graph.incompleteEdge.source
  /\ graph.incompleteEdge.source.id = gesture.on
  /\ graph.incompleteEdge.didLeaveOriginalNode
  /\ graph.incompleteEdge.last # graph.incompleteEdge.start
  /\ pressed = gesture.on

----------------------------------------------------------------------------
(* The dragged node removed *)

\* The drags of the mounted component, with the caller passing other nodes at
\* any time.
NextRemoval ==
  \/ DocMouseDownNode
  \/ RunEffects
  \/ DocumentMouseMove
  \/ DocumentMouseUp
  \/ SetNodes

SpecRemoval == Init /\ [][NextRemoval]_vars

\* The step is the mouse-up of a drag whose node the caller has removed, handled
\* by the listeners of the render that followed the removal.
MouseUpOfRemovedNode ==
  /\ IsMouseUp
  /\ graph.dragState # undefined
  /\ graph.dragState.id \notin DOMAIN graph.nodes
  /\ document.captured = ListenersOf(graph)

\* C38: the document mouse-up that ends the drag of a node the caller has
\* removed from the nodes throws nothing and leaves dragState undefined.
C38_MouseUpToleratesRemovedNode ==
  [][ MouseUpOfRemovedNode
        => /\ Named(graph'.calls, "TypeError") = << >>
           /\ graph'.dragState = undefined
    ]_vars

----------------------------------------------------------------------------
(* The listeners of an earlier render *)

\* C39: a document mouse-up that follows a node mouse-down of the mounted
\* component leaves dragState undefined, whether or not the effects of the
\* render that followed the mouse-down have registered its listeners.
C39_MouseUpActsOnCurrentDrag ==
  [][ (IsMouseUp /\ document.mounted) => graph'.dragState = undefined ]_vars

----------------------------------------------------------------------------
(* The throttle and the unmount *)

\* The events of the pan and the zoom reach the component while it is mounted.
MountedMouseDownBackground == document.mounted /\ ViewMouseDownBackground
MountedMouseMove == document.mounted /\ ViewMouseMove
MountedMouseUp == document.mounted /\ ViewMouseUp
MountedWheel == document.mounted /\ ViewWheel

\* The unmount runs the cleanups of useDocumentEvent; useThrottledState has no
\* cleanup, so the timer of its throttle stays set and fires when due.
NextUnmount ==
  \/ MountedMouseDownBackground
  \/ MountedMouseMove
  \/ MountedMouseUp
  \/ MountedWheel
  \/ ThrottleTimer
  \/ Unmount

SpecUnmount == Init /\ [][NextUnmount]_vars

\* The step hands bounds to the setter of the worldSpaceBounds state.
IsSetWorldSpaceBounds ==
  \/ view'.worldSpaceBounds # view.worldSpaceBounds
  \/ view.lastArgs # undefined /\ view'.lastArgs = undefined

\* C40: after the unmount the throttle hands no bounds to the setter of the
\* worldSpaceBounds state, whatever it kept for the end of its window.
C40_NoBoundsUpdateAfterUnmount ==
  [][ ~document.mounted => ~IsSetWorldSpaceBounds ]_vars

====
